---- MODULE Spec2Model ----
(***************************************************************************)
(* Movie Search: the menu loop of main.py, the paginated search session    *)
(* of show_paginated_results, the prompts of user_interface.py, the        *)
(* catalog queries of mysql_connector.py, the MongoLogger of log_writer.py *)
(* and the two aggregations of log_stats.py.                               *)
(*                                                                         *)
(* Text typed by the user is a sequence of one-character strings, so that  *)
(* strip(), lower() and int() are computed and not assumed.                *)
(***************************************************************************)
EXTENDS Integers, Sequences, FiniteSets, TLC

(***************************************************************************)
(* Bounds of the model.                                                    *)
(***************************************************************************)
\* what happens in one run: the searches and statistics views the user opens, the
\* replacement keywords entered after an empty page, and the disturbances its log
\* shows (warnings and errors: invalid inputs, failed queries; rejected writes)
MaxMoves == 2

(***************************************************************************)
(* Program constants.                                                      *)
(***************************************************************************)
DEFAULT_LIMIT == 10
PAGE_STEP == 10
STATS_LIMIT == 5

(***************************************************************************)
(* Text.                                                                   *)
(***************************************************************************)
RECURSIVE LStrip(_)
LStrip(s) == IF s # <<>> /\ Head(s) = " " THEN LStrip(Tail(s)) ELSE s

RECURSIVE RStrip(_)
RStrip(s) ==
    IF s # <<>> /\ s[Len(s)] = " " THEN RStrip(SubSeq(s, 1, Len(s) - 1)) ELSE s

\* str.strip()
Strip(s) == RStrip(LStrip(s))

LowerChar(c) ==
    CASE c = "Y" -> "y"
      [] c = "N" -> "n"
      [] c = "Q" -> "q"
      [] c = "D" -> "d"
      [] c = "C" -> "c"
      [] OTHER -> c

\* str.lower()
Lower(s) == [i \in 1..Len(s) |-> LowerChar(s[i])]

Digits == {"0", "1", "2", "3", "4", "5", "6", "7", "8", "9"}

DigitVal(c) ==
    CASE c = "0" -> 0 [] c = "1" -> 1 [] c = "2" -> 2 [] c = "3" -> 3
      [] c = "4" -> 4 [] c = "5" -> 5 [] c = "6" -> 6 [] c = "7" -> 7
      [] c = "8" -> 8 [] c = "9" -> 9

\* int(s) raises ValueError unless s, stripped, is a run of digits
IsInt(s) == Strip(s) # <<>> /\ \A i \in 1..Len(Strip(s)) : Strip(s)[i] \in Digits

RECURSIVE DigitsVal(_)
DigitsVal(s) ==
    IF s = <<>> THEN 0 ELSE 10 * DigitsVal(SubSeq(s, 1, Len(s) - 1)) + DigitVal(s[Len(s)])

ParseInt(s) == DigitsVal(Strip(s))

Min(a, b) == IF a < b THEN a ELSE b
Max(a, b) == IF a > b THEN a ELSE b

Range(f) == {f[i] : i \in DOMAIN f}

(***************************************************************************)
(* The film catalog (MySQL).  A query result is a window of row numbers.   *)
(***************************************************************************)
GenreList == << <<"D">>, <<"C">> >>
MinYear == 2000
MaxYear == 2001

\* rows of film whose title or description contains the keyword
KeywordTotal(keyword) ==
    CASE keyword = <<"a">> -> 25
      [] keyword = <<"b">> -> 10
      [] OTHER -> 0

\* rows of film in a category released in one year
FilmsIn(genre, year) ==
    CASE genre = <<"D">> /\ year = 2000 -> 10
      [] genre = <<"D">> /\ year = 2001 -> 12
      [] genre = <<"C">> /\ year = 2001 -> 3
      [] OTHER -> 0

RECURSIVE GenreYearTotal(_, _, _)
GenreYearTotal(genre, year_from, year_to) ==
    IF year_from > year_to THEN 0
    ELSE FilmsIn(genre, year_from) + GenreYearTotal(genre, year_from + 1, year_to)

\* LIMIT DEFAULT_LIMIT OFFSET offset over total matching rows
Page(total, off) ==
    [i \in 1..Max(0, Min(DEFAULT_LIMIT, total - off)) |-> off + i]

(***************************************************************************)
(* MongoLogger.  An entry of log is one insert_one attempt of a connected   *)
(* logger; stored tells whether the store accepted it.  The timestamp is   *)
(* the logger's clock at the call.                                         *)
(***************************************************************************)
Event(event_type, data, level) ==
    [event_type |-> event_type, data |-> data, level |-> level]

is_connected(lgr) == lgr.collection

log_event(lg, lgr, e, ok) ==
    IF ~is_connected(lgr) THEN lg
    ELSE Append(lg, [event_type |-> e.event_type, data |-> e.data, level |-> e.level,
                     timestamp |-> Len(lg) + 1, stored |-> ok])

\* a failed insert ends the handler: the events after it are not logged
RECURSIVE LogAll_StopAtFailure(_, _, _, _)
LogAll_StopAtFailure(lg, lgr, evs, f) ==
    IF evs = <<>> THEN lg
    ELSE IF f = 1 THEN log_event(lg, lgr, Head(evs), FALSE)
    ELSE LogAll_StopAtFailure(log_event(lg, lgr, Head(evs), TRUE), lgr, Tail(evs), f - 1)

\* the events of one handler in call order; the f-th insert fails (0: none)
RECURSIVE LogAll(_, _, _, _)
LogAll(lg, lgr, evs, f) ==
    IF evs = <<>> THEN lg
    ELSE LogAll(log_event(lg, lgr, Head(evs), f # 1), lgr, Tail(evs), f - 1)

\* log_event prints the entries of level info and error of a connected logger
LogConsole(lgr, evs) ==
    IF ~is_connected(lgr) THEN {}
    ELSE {<<evs[i].level, evs[i].event_type>> :
            i \in {j \in 1..Len(evs) : evs[j].level \in {"info", "error"}}}

InputErrorEvent(context, user_input) ==
    Event("input_error", [context |-> context, invalid_input |-> user_input], "warning")

\* the documents of the collection
Collection(lg) == SelectSeq(lg, LAMBDA e : e.stored)

Incidents(lg) ==
    Cardinality({i \in 1..Len(lg) : ~lg[i].stored \/ lg[i].level \in {"warning", "error"}})

\* the run has room for one more move
Room(lg, o) == o + Incidents(lg) < MaxMoves

\* which of the n inserts of a handler the store rejects (0: none)
FailChoices(lg, o, lgr, n) ==
    IF is_connected(lgr) /\ Room(lg, o) THEN 0..n ELSE {0}

DigitChar(n) ==
    CASE n = 0 -> "0" [] n = 1 -> "1" [] n = 2 -> "2" [] n = 3 -> "3"
      [] n = 4 -> "4" [] n = 5 -> "5" [] n = 6 -> "6" [] n = 7 -> "7"
      [] n = 8 -> "8" [] n = 9 -> "9"

\* str(n) of a natural number
RECURSIVE IntStr(_)
IntStr(n) == IF n < 10 THEN <<DigitChar(n)>> ELSE IntStr(n \div 10) \o <<DigitChar(n % 10)>>

(***************************************************************************)
(* mysql_connector.py: the two searches.  fail: the query raises.  The     *)
(* result is the returned page and the events logged, in call order.       *)
(***************************************************************************)
SearchErrorEvent(context, details, error) ==
    Event("search_error",
          [description |-> <<"search error (", context, "): ">> \o details, error |-> error],
          "error")

search_by_keyword(keyword, off, fail) ==
    IF Strip(keyword) = <<>>
    THEN [results |-> <<>>,
          events |-> <<InputErrorEvent("search_by_keyword", <<"empty search query">>)>>,
          failed |-> FALSE]
    ELSE IF fail
    THEN [results |-> <<>>,
          events |-> <<SearchErrorEvent("keyword", keyword, <<"MySQLError">>)>>,
          failed |-> TRUE]
    ELSE [results |-> Page(KeywordTotal(keyword), off),
          events |-> <<Event("keyword_search",
                             [keyword |-> keyword,
                              returned |-> Len(Page(KeywordTotal(keyword), off)),
                              offset |-> off],
                             "info")>>,
          failed |-> FALSE]

search_by_genre_and_year(genre, year_from, year_to, off, fail) ==
    IF fail
    THEN [results |-> <<>>,
          events |-> <<SearchErrorEvent("genre_year",
                          genre \o <<", ">> \o IntStr(year_from) \o <<"-">> \o IntStr(year_to),
                          <<"MySQLError">>)>>,
          failed |-> TRUE]
    ELSE [results |-> Page(GenreYearTotal(genre, year_from, year_to), off),
          events |-> <<Event("genre_search",
                             [genre |-> genre,
                              years |-> IntStr(year_from) \o <<"-">> \o IntStr(year_to),
                              returned |-> Len(Page(GenreYearTotal(genre, year_from, year_to), off)),
                              offset |-> off],
                             "info")>>,
          failed |-> FALSE]

\* search_func(*args, offset=offset, logger=logger) binds its positional
\* parameters: search_by_keyword has two, search_by_genre_and_year four
CallBinds(func, a) ==
    IF func = "search_by_keyword" THEN Len(a) = 2 ELSE Len(a) = 4

call_search(func, a, off, fail) ==
    IF func = "search_by_keyword"
    THEN search_by_keyword(a[2], off, fail)
    ELSE search_by_genre_and_year(a[2], a[3], a[4], off, fail)

(***************************************************************************)
(* main.py                                                                 *)
(***************************************************************************)
\* the summary with the status found whatever the count
log_keyword_summary_AlwaysFound(keyword, found_count) ==
    Event("keyword_summary",
          [keyword |-> keyword, status |-> "found", found_count |-> found_count],
          "info")

\* main.py:19-38
log_keyword_summary(keyword, found_count) ==
    Event("keyword_summary",
          [keyword |-> keyword,
           status |-> IF found_count > 0 THEN "found" ELSE "not_found",
           found_count |-> found_count],
          "info")

\* the summary logged for every page of a keyword search
LogsSummary_EveryPage(off, func) == func = "search_by_keyword"

\* main.py:59, the first page of a keyword search
LogsSummary(off, func) == off = 0 /\ func = "search_by_keyword"

\* main.py:60
SummaryKeyword(a) == IF Len(a) > 1 THEN a[2] ELSE <<>>

\* only an empty page counts as short
IsShortPage_EmptyOnly(res) == Len(res) < 1

\* main.py:74, the page ends the session without a prompt
IsShortPage(res) == Len(res) < 10

\* the offset advanced by one row
NextOffset_OneRow(off) == off + 1

\* main.py:76
NextOffset(off) == off + PAGE_STEP

VARIABLES
    pc,           \* where the process is: the prompt it waits at, or the call it is about to make
    logger,       \* MongoLogger: collection (is_connected) and client
    mysql_conn,   \* "none", "open", "closed"
    log,          \* insert_one attempts of the logger, oldest first
    console,      \* what the last step printed
    search_func,  \* show_paginated_results: the search function
    args,         \* show_paginated_results: *args, the connection first
    offset,       \* show_paginated_results: offset
    results,      \* show_paginated_results: the last page fetched
    stat_results, \* main: the statistics call last made, the rows its aggregation
                  \* produced, the list it returned to format_results, and whether
                  \* collection.aggregate raised
    matched_genre,\* genre_year_input: the genre chosen at the first prompt
    typed,        \* history: the prompt answered in the last step and the text typed there
    ops,          \* history: the menu choices 1-3 and the replacement keywords of this run
    session       \* history of the current session start: its fetches and where its log begins

vars == <<pc, logger, mysql_conn, log, console, search_func, args, offset, results,
          stat_results, matched_genre, typed, ops, session>>

NoStats == [call |-> "none", rows |-> <<>>, returned |-> <<>>, failed |-> FALSE]

\* the step read no input
NoTyped == [prompt |-> "none", text |-> <<>>]

Typed(prompt, text) == [prompt |-> prompt, text |-> text]

NoSession == [kind |-> "none", restarted |-> FALSE, mark |-> 0, fetches |-> <<>>]

Init ==
    /\ pc = "start"
    /\ logger = [collection |-> FALSE, client |-> "none"]
    /\ mysql_conn = "none"
    /\ log = <<>>
    /\ console = {}
    /\ search_func = "none"
    /\ args = <<>>
    /\ offset = 0
    /\ results = <<>>
    /\ stat_results = NoStats
    /\ matched_genre = <<>>
    /\ typed = NoTyped
    /\ ops = 0
    /\ session = NoSession

(***************************************************************************)
(* What the user may type.                                                 *)
(***************************************************************************)
MenuInputs == {<<"1">>, <<" ", "2">>, <<"3">>, <<"4">>, <<"7">>, <<"x", " ">>}
KeywordInputs == {<<"a">>, <<" ", "b", " ">>, <<"c">>, <<" ">>, <<>>}
YesNoInputs == {<<"y">>, <<"Y", " ">>, <<"n">>, <<"N">>, <<"x">>, <<>>}
GenreInputs == {<<"d">>, <<"C", " ">>, <<"q">>, <<"Q">>, <<"x">>}
YearInputs == {<<"1", "9", "9", "9">>, <<"2", "0", "0", "0">>, <<" ", "2", "0", "0", "1">>,
               <<"2", "0", "0", "2">>, <<"x">>}
StatsInputs == {<<"1">>, <<"2", " ">>, <<"3">>, <<>>}

PromptPcs == {"main_menu", "keyword_input", "new_keyword_input", "continue_prompt",
              "continue_or_menu_prompt", "genre_input", "year_input", "statistics_menu"}

ShutdownEvent(description) ==
    Event("shutdown", [description |-> <<description>>], "info")

\* show_paginated_results has returned or was left by an exception
LeaveSession ==
    /\ search_func' = "none"
    /\ args' = <<>>
    /\ offset' = 0
    /\ results' = <<>>

SessionUnchanged == UNCHANGED <<search_func, args, offset, results, session>>

\* main.py:88-109, MongoLogger.__init__, mysql_connector.connection
Startup ==
    /\ pc = "start"
    /\ \E mongo \in {"ok", "no_server", "no_client"}, mysql_ok \in BOOLEAN :
         LET lgr == [collection |-> mongo = "ok",
                     client |-> IF mongo = "no_client" THEN "none" ELSE "open"]
             evs == <<Event("mongodb_connected",
                            [description |-> <<"Logger successfully connected.">>], "info"),
                      Event("startup", [description |-> <<"MongoLogger initialised">>], "info")>>
                    \o (IF mysql_ok
                        THEN <<Event("db_connected",
                                     [description |-> <<"MySQL connection established">>],
                                     "info")>>
                        ELSE <<Event("db_connection_error",
                                     [description |-> <<"MySQL connection error">>,
                                      error |-> <<"MySQLError">>],
                                     "error")>>)
         IN  \E f \in FailChoices(log, ops, lgr, Len(evs)) :
               /\ logger' = lgr
               /\ log' = LogAll(log, lgr, evs, f)
               /\ mysql_conn' = IF mysql_ok THEN "open" ELSE "none"
               \* main.py:99 calls show_error(message, logger=logger); show_error
               \* takes one parameter, so the except block raises TypeError
               /\ pc' = IF mysql_ok THEN "main_menu" ELSE "crashed"
               /\ console' = LogConsole(lgr, evs)
                               \cup (IF mysql_ok THEN {<<"welcome">>}
                                     ELSE {<<"Traceback", "TypeError">>})
    /\ typed' = NoTyped
    /\ UNCHANGED <<stat_results, matched_genre, ops>>
    /\ SessionUnchanged

\* user_interface.graceful_exit, reached from the except KeyboardInterrupt of every prompt
Interrupt ==
    /\ pc \in PromptPcs
    /\ LET evs == <<ShutdownEvent("interrupted by the user with Ctrl+C")>>
       IN  \E f \in FailChoices(log, ops, logger, 1) :
             /\ log' = LogAll(log, logger, evs, f)
             /\ console' = {<<"interrupted">>} \cup LogConsole(logger, evs)
    /\ pc' = "exited"
    /\ typed' = NoTyped
    /\ UNCHANGED <<logger, mysql_conn, stat_results, matched_genre, ops>>
    /\ SessionUnchanged

\* user_interface.main_menu (int_input_prompt) and the branch of main's loop it selects,
\* up to the next prompt
MainMenu ==
    /\ pc = "main_menu"
    /\ \E raw \in MenuInputs, fail \in BOOLEAN :
         LET value == Strip(raw)
             valid == IsInt(value) /\ ParseInt(value) \in {1, 2, 3, 4}
             choice == IF valid THEN ParseInt(value) ELSE 0
             evs == CASE choice = 0 -> <<InputErrorEvent("main_menu", value)>>
                      [] choice = 1 -> <<>>
                      [] choice = 2 ->
                           IF fail
                           THEN <<Event("genre_year_error",
                                        [description |-> <<"genres and years lookup failed">>,
                                         error |-> <<"MySQLError">>],
                                        "error")>>
                           ELSE <<Event("genre_year_loaded",
                                        [genre_count |-> Len(GenreList),
                                         year_range |-> IntStr(MinYear) \o <<"-">> \o IntStr(MaxYear)],
                                        "debug")>>
                      [] choice = 3 -> <<>>
                      [] choice = 4 -> <<ShutdownEvent("the user closed the application")>>
         IN  /\ typed' = Typed("main_menu", <<raw>>)
             /\ choice \in {1, 2, 3} => Room(log, ops)
             /\ ops' = IF choice \in {1, 2, 3} THEN ops + 1 ELSE ops
             /\ fail => Room(log, ops)
             /\ choice = 0 => Room(log, ops)
             /\ choice # 2 => ~fail
             /\ \E f \in FailChoices(log, ops, logger, Len(evs)) :
                  log' = LogAll(log, logger, evs, f)
             /\ pc' = CASE choice = 0 -> "main_menu"
                        [] choice = 1 -> "keyword_input"
                        \* get_genre_and_years re-raises; main has no handler
                        [] choice = 2 -> IF fail THEN "crashed" ELSE "genre_input"
                        [] choice = 3 -> "statistics_menu"
                        [] choice = 4 -> "exited"
             \* main.py:161, MongoLogger.close
             /\ logger' = IF choice = 4 /\ logger.client = "open"
                          THEN [logger EXCEPT !.client = "closed"]
                          ELSE logger
             /\ console' = LogConsole(logger, evs)
                             \cup CASE choice = 0 -> {<<"error", "main_menu">>}
                                    [] choice = 1 -> {}
                                    [] choice = 2 -> IF fail THEN {<<"Traceback", "MySQLError">>}
                                                     ELSE {<<"genres">>, <<"years">>}
                                    [] choice = 3 -> {<<"statistics_menu">>}
                                    [] choice = 4 -> {<<"goodbye">>}
    \* results of main's previous iteration is dead once the menu is answered
    /\ stat_results' = NoStats
    /\ UNCHANGED <<mysql_conn, matched_genre>>
    /\ SessionUnchanged

\* show_paginated_results begins, or begins again, at offset 0 (main.py:54, 70)
StartSession(func, a, lg, restarted) ==
    /\ search_func' = func
    /\ args' = a
    /\ offset' = 0
    /\ results' = <<>>
    /\ session' = [kind |-> func, restarted |-> restarted, mark |-> Len(lg), fetches |-> <<>>]
    /\ pc' = "fetch"

\* any text taken for a keyword
AcceptsKeyword_Any(keyword) == TRUE

\* user_interface.py:43, if keyword
AcceptsKeyword(keyword) == keyword # <<>>

\* main.py:116-118: get_keyword_input, the search_by_keyword event, the call of
\* show_paginated_results
KeywordInput ==
    /\ pc = "keyword_input"
    /\ \E raw \in KeywordInputs :
         LET keyword == Strip(raw)
             evs == IF AcceptsKeyword(keyword)
                    THEN <<Event("search_by_keyword", [keyword |-> keyword], "info")>>
                    ELSE <<InputErrorEvent("get_keyword_input", keyword)>>
         IN  \E f \in FailChoices(log, ops, logger, 1) :
               /\ typed' = Typed("keyword_input", <<raw>>)
               /\ ~AcceptsKeyword(keyword) => Room(log, ops)
               /\ log' = LogAll(log, logger, evs, f)
               /\ console' = LogConsole(logger, evs)
                               \cup (IF AcceptsKeyword(keyword) THEN {} ELSE {<<"error", "empty keyword">>})
               /\ IF AcceptsKeyword(keyword)
                  THEN StartSession("search_by_keyword", <<"mysql_conn", keyword>>, log', FALSE)
                  ELSE pc' = "keyword_input" /\ SessionUnchanged
    /\ UNCHANGED <<logger, mysql_conn, stat_results, matched_genre, ops>>

\* main.py:69-72: the replacement keyword after an empty page
NewKeywordInput ==
    /\ pc = "new_keyword_input"
    /\ \E raw \in KeywordInputs :
         LET new_keyword == Strip(raw)
             evs == IF AcceptsKeyword(new_keyword) THEN <<>>
                    ELSE <<InputErrorEvent("get_keyword_input", new_keyword)>>
         IN  \E f \in FailChoices(log, ops, logger, Len(evs)) :
               /\ typed' = Typed("new_keyword_input", <<raw>>)
               /\ ~AcceptsKeyword(new_keyword) => Room(log, ops)
               /\ log' = LogAll(log, logger, evs, f)
               /\ console' = IF AcceptsKeyword(new_keyword) THEN {} ELSE {<<"error", "empty keyword">>}
               /\ IF AcceptsKeyword(new_keyword)
                  THEN StartSession(search_func, <<args[1], new_keyword>>, log', TRUE)
                  ELSE pc' = "new_keyword_input" /\ SessionUnchanged
    /\ UNCHANGED <<logger, mysql_conn, stat_results, matched_genre, ops>>

\* main.py:56-75: one pass of the loop of show_paginated_results from the call of
\* search_func to the next prompt or the return
Fetch ==
    /\ pc = "fetch"
    /\ IF ~CallBinds(search_func, args)
       THEN \* TypeError: missing required positional arguments
            /\ pc' = "crashed"
            /\ console' = {<<"Traceback", "TypeError">>}
            /\ LeaveSession
            /\ UNCHANGED <<log, session>>
       ELSE \E fail \in {FALSE} \cup {Room(log, ops)} :
              LET r == call_search(search_func, args, offset, fail)
                  evs == r.events
                         \o (IF LogsSummary(offset, search_func)
                             THEN <<log_keyword_summary(SummaryKeyword(args), Len(r.results))>>
                             ELSE <<>>)
                  ended == r.results # <<>> /\ IsShortPage(r.results)
              IN  /\ \E f \in FailChoices(log, ops, logger, Len(evs)) :
                       log' = LogAll(log, logger, evs, f)
                  /\ session' = [session EXCEPT !.fetches =
                                   Append(@, [offset |-> offset, len |-> Len(r.results),
                                              failed |-> r.failed])]
                  /\ console' = LogConsole(logger, evs)
                                  \cup (IF r.results = <<>>
                                        THEN {<<"no data">>, <<"nothing found">>}
                                        ELSE {<<"films">>})
                  /\ pc' = IF r.results = <<>> THEN "continue_or_menu_prompt"
                           ELSE IF ended THEN "main_menu"
                           ELSE "continue_prompt"
                  /\ IF ended THEN LeaveSession
                     ELSE results' = r.results /\ UNCHANGED <<search_func, args, offset>>
    /\ typed' = NoTyped
    /\ UNCHANGED <<logger, mysql_conn, stat_results, matched_genre, ops>>

\* user_interface.yes_no_prompt: TRUE, FALSE, or "again" after an input error
YesNo(raw) ==
    LET choice == Lower(Strip(raw))
    IN  IF choice \in {<<"y">>, <<"y", "e", "s">>} THEN [answer |-> "yes", choice |-> choice]
        ELSE IF choice \in {<<"n">>, <<"n", "o">>} THEN [answer |-> "no", choice |-> choice]
        ELSE [answer |-> "again", choice |-> choice]

\* main.py:74-76: "show more?" after a full page
ContinuePrompt ==
    /\ pc = "continue_prompt"
    /\ \E raw \in YesNoInputs :
         LET yn == YesNo(raw)
             evs == IF yn.answer = "again"
                    THEN <<InputErrorEvent("continue_prompt", yn.choice)>> ELSE <<>>
         IN  /\ typed' = Typed("continue_prompt", <<raw>>)
             /\ yn.answer = "again" => Room(log, ops)
             /\ \E f \in FailChoices(log, ops, logger, Len(evs)) :
                  log' = LogAll(log, logger, evs, f)
             /\ console' = IF yn.answer = "again" THEN {<<"error", "y or n">>} ELSE {}
             /\ CASE yn.answer = "yes" ->
                       /\ offset' = NextOffset(offset)
                       /\ pc' = "fetch"
                       /\ UNCHANGED <<search_func, args, results>>
                  [] yn.answer = "no" ->
                       /\ pc' = "main_menu"
                       /\ LeaveSession
                  [] yn.answer = "again" ->
                       /\ pc' = "continue_prompt"
                       /\ UNCHANGED <<search_func, args, offset, results>>
    /\ UNCHANGED <<logger, mysql_conn, stat_results, matched_genre, ops, session>>

\* main.py:65-69: "continue the search?" after an empty page
ContinueOrMenuPrompt ==
    /\ pc = "continue_or_menu_prompt"
    /\ \E raw \in YesNoInputs :
         LET yn == YesNo(raw)
             evs == IF yn.answer = "again"
                    THEN <<InputErrorEvent("continue_or_menu_prompt", yn.choice)>> ELSE <<>>
         IN  /\ typed' = Typed("continue_or_menu_prompt", <<raw>>)
             /\ yn.answer = "again" => Room(log, ops)
             /\ \E f \in FailChoices(log, ops, logger, Len(evs)) :
                  log' = LogAll(log, logger, evs, f)
             /\ console' = IF yn.answer = "again" THEN {<<"error", "y or n">>} ELSE {}
             /\ yn.answer = "yes" => Room(log, ops)
             /\ ops' = IF yn.answer = "yes" THEN ops + 1 ELSE ops
             /\ CASE yn.answer = "yes" ->
                       /\ pc' = "new_keyword_input"
                       /\ UNCHANGED <<search_func, args, offset, results>>
                  [] yn.answer = "no" ->
                       /\ pc' = "main_menu"
                       /\ LeaveSession
                  [] yn.answer = "again" ->
                       /\ pc' = "continue_or_menu_prompt"
                       /\ UNCHANGED <<search_func, args, offset, results>>
    /\ UNCHANGED <<logger, mysql_conn, stat_results, matched_genre, session>>

\* user_interface.py:71
MatchGenre(genre_list, genre_input) ==
    LET hits == {i \in 1..Len(genre_list) : Lower(genre_list[i]) = genre_input}
    IN  IF hits = {} THEN <<>>
        ELSE genre_list[CHOOSE i \in hits : \A j \in hits : i <= j]

\* the cancel answer taken for a genre name
IsQuit_Never(genre_input) == FALSE

\* user_interface.py:69
IsQuit(genre_input) == genre_input = <<"q">>

\* user_interface.py:66-77: the genre prompt of genre_year_input
GenreInput ==
    /\ pc = "genre_input"
    /\ \E raw \in GenreInputs :
         LET genre_input == Lower(Strip(raw))
             quit == IsQuit(genre_input)
             matched == MatchGenre(GenreList, genre_input)
             evs == IF quit \/ matched # <<>> THEN <<>>
                    ELSE <<InputErrorEvent("genre_input", genre_input)>>
         IN  /\ typed' = Typed("genre_input", <<raw>>)
             /\ evs # <<>> => Room(log, ops)
             /\ \E f \in FailChoices(log, ops, logger, Len(evs)) :
                  log' = LogAll(log, logger, evs, f)
             /\ console' = IF evs = <<>> THEN {} ELSE {<<"error", "unknown genre">>}
             \* main.py:124: genre is None, back to the menu
             /\ pc' = IF quit THEN "main_menu"
                      ELSE IF matched # <<>> THEN "year_input" ELSE "genre_input"
             /\ matched_genre' = IF quit THEN <<>> ELSE matched
    /\ UNCHANGED <<logger, mysql_conn, stat_results, ops>>
    /\ SessionUnchanged

InvalidLiteral(raw) == <<"invalid literal for int() with base 10: '">> \o raw \o <<"'">>

\* the validation without the comparison of the two years
YearError_Unordered(raw_from, raw_to, min_year, max_year) ==
    IF ~IsInt(raw_from) THEN InvalidLiteral(raw_from)
    ELSE IF ~IsInt(raw_to) THEN InvalidLiteral(raw_to)
    ELSE IF ParseInt(raw_from) < min_year \/ ParseInt(raw_to) > max_year
         THEN <<"year outside the available range">>
    ELSE <<>>

\* user_interface.py:81-86: <<>> when the range is accepted, else str(e) of the ValueError
YearError(raw_from, raw_to, min_year, max_year) ==
    IF ~IsInt(raw_from) THEN InvalidLiteral(raw_from)
    ELSE IF ~IsInt(raw_to) THEN InvalidLiteral(raw_to)
    ELSE IF ParseInt(raw_from) > ParseInt(raw_to) THEN <<"range start later than its end">>
    ELSE IF ParseInt(raw_from) < min_year \/ ParseInt(raw_to) > max_year
         THEN <<"year outside the available range">>
    ELSE <<>>

\* user_interface.py:79-94 and main.py:126-138: the two year prompts, the
\* search_by_genre_year event and the call of show_paginated_results
YearInput ==
    /\ pc = "year_input"
    /\ \E raw_from \in YearInputs, raw_to \in YearInputs :
         LET err == YearError(raw_from, raw_to, MinYear, MaxYear)
             year_from == ParseInt(raw_from)
             year_to == ParseInt(raw_to)
             evs == IF err = <<>>
                    THEN <<Event("search_by_genre_year",
                                 [genre |-> matched_genre, year_from |-> year_from,
                                  year_to |-> year_to],
                                 "info")>>
                    ELSE <<InputErrorEvent("year_range_input", err)>>
         IN  \* the second prompt is reached only when int() accepts the first answer
             /\ typed' = Typed("year_input", IF IsInt(raw_from) THEN <<raw_from, raw_to>>
                                             ELSE <<raw_from>>)
             /\ err # <<>> => Room(log, ops)
             /\ \E f \in FailChoices(log, ops, logger, 1) :
                  log' = LogAll(log, logger, evs, f)
             /\ console' = LogConsole(logger, evs)
                             \cup (IF err = <<>> THEN {} ELSE {<<"error", "years">>})
             /\ IF err = <<>>
                THEN StartSession("search_by_genre_and_year",
                                  <<"mysql_conn", matched_genre, year_from, year_to>>, log', FALSE)
                ELSE pc' = "year_input" /\ SessionUnchanged
    /\ UNCHANGED <<logger, mysql_conn, stat_results, matched_genre, ops>>

(***************************************************************************)
(* log_stats.py: the aggregation pipelines.  A stage whose order MongoDB   *)
(* leaves open among equal keys yields every order it allows.              *)
(***************************************************************************)
SearchTypes == {"search_by_keyword", "search_by_genre_year"}

\* $match
Match(docs, types) == SelectSeq(docs, LAMBDA e : e.event_type \in types)

\* $sort {field: -1}: the orders of the set S that do not increase in field
RECURSIVE SortDesc(_, _)
SortDesc(S, field) ==
    IF S = {} THEN {<<>>}
    ELSE UNION {{<<x>> \o rest : rest \in SortDesc(S \ {x}, field)} :
                  x \in {y \in S : \A z \in S : y[field] >= z[field]}}

\* $last in place of $first
FirstOf_Last(sorted, members) ==
    sorted[CHOOSE i \in members : \A j \in members : i >= j]

\* the value $first keeps for a group: that of its first document in the incoming order
FirstOf(sorted, members) ==
    sorted[CHOOSE i \in members : \A j \in members : i <= j]

\* $limit
Limit(rows, n) == SubSeq(rows, 1, Min(n, Len(rows)))

\* log_stats.py:34-40: a field the document lacks is left out of _id
TopId(e) ==
    [k \in {"type"} \cup ({"keyword", "genre", "year_from", "year_to"} \cap DOMAIN e.data) |->
        IF k = "type" THEN e.event_type ELSE e.data[k]]

\* log_stats.py:101
RecentId(e) == e.data.keyword

\* the $group stage's _id expression of either pipeline
GroupId(pipeline, e) == IF pipeline = "top_searches" THEN TopId(e) ELSE RecentId(e)

\* the groups without their counts: every group reports 1
Group_CountOne(sorted, pipeline) ==
    {[_id |-> id,
      count |-> 1,
      timestamp |-> FirstOf(sorted, {i \in 1..Len(sorted) :
                                       GroupId(pipeline, sorted[i]) = id}).timestamp] :
        id \in {GroupId(pipeline, sorted[i]) : i \in 1..Len(sorted)}}

\* $group by _id with $sum 1 and $first of timestamp
Group(sorted, pipeline) ==
    {[_id |-> id,
      count |-> Cardinality({i \in 1..Len(sorted) : GroupId(pipeline, sorted[i]) = id}),
      timestamp |-> FirstOf(sorted, {i \in 1..Len(sorted) :
                                       GroupId(pipeline, sorted[i]) = id}).timestamp] :
        id \in {GroupId(pipeline, sorted[i]) : i \in 1..Len(sorted)}}

\* the pipeline without its $match stage
TopPipeline_Unmatched(docs) ==
    UNION {{Limit(rows, STATS_LIMIT) : rows \in SortDesc(Group(sorted, "top_searches"), "count")} :
             sorted \in SortDesc(Range(docs), "timestamp")}

\* log_stats.py:30-46: the lists the aggregation may return
TopPipeline(docs) ==
    UNION {{Limit(rows, STATS_LIMIT) : rows \in SortDesc(Group(sorted, "top_searches"), "count")} :
             sorted \in SortDesc(Range(Match(docs, SearchTypes)), "timestamp")}

Reverse(rows) == [i \in 1..Len(rows) |-> rows[Len(rows) + 1 - i]]

\* the groups sorted by timestamp ascending
RecentPipeline_Ascending(docs) ==
    UNION {{Limit(Reverse(rows), STATS_LIMIT) :
              rows \in SortDesc(Group(sorted, "recent_unique"), "timestamp")} :
             sorted \in SortDesc(Range(Match(docs, {"search_by_keyword"})), "timestamp")}

\* log_stats.py:97-106
RecentPipeline(docs) ==
    UNION {{Limit(rows, STATS_LIMIT) : rows \in SortDesc(Group(sorted, "recent_unique"), "timestamp")} :
             sorted \in SortDesc(Range(Match(docs, {"search_by_keyword"})), "timestamp")}

Get(rec, field) == IF field \in DOMAIN rec THEN rec[field] ELSE <<"-">>

\* a year of _id as the f-string shows it
ShowField(rec, field) == IF field \in DOMAIN rec THEN IntStr(rec[field]) ELSE <<"-">>

\* log_stats.py:50-68
FormatTop(r) ==
    IF r._id.type = "search_by_keyword"
    THEN [timestamp |-> r.timestamp,
          event_type |-> "keyword search",
          params |-> <<"'">> \o Get(r._id, "keyword") \o <<"' - ">> \o IntStr(r.count)
                       \o <<" times">>]
    ELSE [timestamp |-> r.timestamp,
          event_type |-> "genre search",
          params |-> Get(r._id, "genre") \o <<", ">> \o ShowField(r._id, "year_from")
                       \o <<"-">> \o ShowField(r._id, "year_to") \o <<" - ">>
                       \o IntStr(r.count) \o <<" times">>]

\* log_stats.py:116-122
FormatRecent(r) ==
    [timestamp |-> r.timestamp,
     event_type |-> "unique query",
     params |-> <<"'">> \o r._id \o <<"'">>]

\* no placeholder entry
unavailable_stats_Empty(source) == <<>>

\* log_stats.py:126-146; 0 stands for the dash shown in place of a timestamp
unavailable_stats(source) ==
    <<[timestamp |-> 0, event_type |-> source, params |-> <<"unavailable">>]>>

\* the error placeholder returned without logging
log_stats_error_Silent(context) ==
    [events |-> <<>>,
     returned |-> <<[timestamp |-> 0, event_type |-> "error",
                     params |-> <<"statistics error (", context, ")">>]>>]

\* log_stats.py:148-184
log_stats_error(context) ==
    [events |-> <<Event("stats_error",
                        [context |-> context, error |-> <<"OperationFailure">>],
                        "error")>>,
     returned |-> <<[timestamp |-> 0, event_type |-> "error",
                     params |-> <<"statistics error (", context, ")">>]>>]

\* get_top_searches: the outcomes of one call, each with the events it logs.
\* agg_fail: collection.aggregate raises
get_top_searches(lgr, lg, agg_fail) ==
    IF ~is_connected(lgr)
    THEN {[call |-> "top_searches", rows |-> <<>>, returned |-> unavailable_stats("MongoDB"),
           events |-> <<>>, failed |-> FALSE]}
    ELSE IF agg_fail
    THEN {[call |-> "top_searches", rows |-> <<>>,
           returned |-> log_stats_error("top_searches").returned,
           events |-> log_stats_error("top_searches").events, failed |-> TRUE]}
    ELSE {[call |-> "top_searches", rows |-> rows,
           returned |-> [i \in 1..Len(rows) |-> FormatTop(rows[i])],
           events |-> <<Event("stats_top_searches", [returned |-> Len(rows)], "debug")>>,
           failed |-> FALSE] :
            rows \in TopPipeline(Collection(lg))}

\* get_recent_unique_searches
get_recent_unique_searches(lgr, lg, agg_fail) ==
    IF ~is_connected(lgr)
    THEN {[call |-> "recent_unique", rows |-> <<>>, returned |-> unavailable_stats("MongoDB"),
           events |-> <<>>, failed |-> FALSE]}
    ELSE IF agg_fail
    THEN {[call |-> "recent_unique", rows |-> <<>>,
           returned |-> log_stats_error("recent_unique").returned,
           events |-> log_stats_error("recent_unique").events, failed |-> TRUE]}
    ELSE {[call |-> "recent_unique", rows |-> rows,
           returned |-> [i \in 1..Len(rows) |-> FormatRecent(rows[i])],
           events |-> <<Event("stats_recent_unique", [returned |-> Len(rows)], "debug")>>,
           failed |-> FALSE] :
            rows \in RecentPipeline(Collection(lg))}

\* main.py:142-149: get_statistics_choice (str_input_prompt), the statistics call and
\* format_results
Statistics ==
    /\ pc = "statistics_menu"
    /\ \E raw \in StatsInputs, agg_fail \in BOOLEAN :
         LET choice == Strip(raw)
             valid == choice \in {<<"1">>, <<"2">>}
             outcomes == IF ~valid
                         THEN {[call |-> stat_results.call, rows |-> stat_results.rows,
                                returned |-> stat_results.returned,
                                events |-> <<InputErrorEvent("statistics_menu", choice)>>,
                                failed |-> stat_results.failed]}
                         ELSE IF choice = <<"1">>
                         THEN get_top_searches(logger, log, agg_fail)
                         ELSE get_recent_unique_searches(logger, log, agg_fail)
         IN  /\ typed' = Typed("statistics_menu", <<raw>>)
             /\ ~valid => Room(log, ops)
             /\ (~valid \/ ~is_connected(logger)) => ~agg_fail
             /\ agg_fail => Room(log, ops)
             /\ \E out \in outcomes :
                  /\ \E f \in FailChoices(log, ops, logger, Len(out.events)) :
                       log' = LogAll(log, logger, out.events, f)
                  /\ stat_results' = [call |-> out.call, rows |-> out.rows,
                                      returned |-> out.returned, failed |-> out.failed]
                  /\ console' = LogConsole(logger, out.events)
                                  \cup (IF ~valid THEN {<<"error", "1 or 2">>}
                                        ELSE IF out.returned = <<>> THEN {<<"no data">>}
                                        ELSE {<<"statistics">>})
             /\ pc' = IF valid THEN "main_menu" ELSE "statistics_menu"
    /\ UNCHANGED <<logger, mysql_conn, matched_genre, ops>>
    /\ SessionUnchanged

Next ==
    \/ Startup
    \/ MainMenu
    \/ KeywordInput
    \/ NewKeywordInput
    \/ Fetch
    \/ ContinuePrompt
    \/ ContinueOrMenuPrompt
    \/ GenreInput
    \/ YearInput
    \/ Statistics
    \/ Interrupt

Spec == Init /\ [][Next]_vars

TypeOK ==
    /\ pc \in PromptPcs \cup {"start", "fetch", "exited", "crashed"}
    /\ offset \in Nat
    /\ Len(results) <= DEFAULT_LIMIT

(***************************************************************************)
(* The statistics views over a collection that earlier runs have filled.   *)
(* An earlier search left its search event and the summary or page event   *)
(* that follows it.  The aggregation compares keywords and genre/year      *)
(* triples only for equality, so a history names them in the order of      *)
(* their first appearance.                                                 *)
(***************************************************************************)
\* searches in the collection when the run starts
MaxHistory == 6

HistoryKeywords == << <<"a">>, <<"b">>, <<"c">>, <<"d">>, <<"e">>, <<"f">> >>
HistoryGenreSearches ==
    << [genre |-> <<"D">>, year_from |-> 2000, year_to |-> 2001],
       [genre |-> <<"C">>, year_from |-> 2001, year_to |-> 2001] >>

\* a search is [kind, n]: the n-th keyword or the n-th genre/year triple
NextNew(h, kind) == Cardinality({h[i].n : i \in {j \in 1..Len(h) : h[j].kind = kind}}) + 1

Extensions(h) ==
    {[kind |-> "keyword", n |-> n] : n \in 1..Min(NextNew(h, "keyword"), Len(HistoryKeywords))}
    \cup {[kind |-> "genre_year", n |-> n] :
            n \in 1..Min(NextNew(h, "genre_year"), Len(HistoryGenreSearches))}

RECURSIVE Histories(_)
Histories(n) ==
    IF n = 0 THEN {<<>>}
    ELSE LET shorter == Histories(n - 1)
         IN  shorter \cup UNION {{Append(h, s) : s \in Extensions(h)} :
                                    h \in {g \in shorter : Len(g) = n - 1}}

\* what one earlier search logged (main.py:117, 61 and 126-130, mysql_connector.py:204)
EarlierEvents(s) ==
    IF s.kind = "keyword"
    THEN LET keyword == HistoryKeywords[s.n]
         IN  <<Event("search_by_keyword", [keyword |-> keyword], "info"),
               log_keyword_summary(keyword, Len(Page(KeywordTotal(keyword), 0)))>>
    ELSE LET g == HistoryGenreSearches[s.n]
         IN  <<Event("search_by_genre_year", g, "info")>>
             \o search_by_genre_and_year(g.genre, g.year_from, g.year_to, 0, FALSE).events

ConnectedLogger == [collection |-> TRUE, client |-> "open"]

RECURSIVE HistoryLog(_)
HistoryLog(h) ==
    IF h = <<>> THEN <<>>
    ELSE LogAll(HistoryLog(SubSeq(h, 1, Len(h) - 1)), ConnectedLogger,
                EarlierEvents(h[Len(h)]), 0)

\* the user has opened the statistics view, the last move of a run that is connected
\* to a collection with a history
InitStats ==
    /\ pc = "statistics_menu"
    /\ logger = ConnectedLogger
    /\ mysql_conn = "open"
    /\ log \in {HistoryLog(h) : h \in Histories(MaxHistory)}
    /\ console = {}
    /\ search_func = "none"
    /\ args = <<>>
    /\ offset = 0
    /\ results = <<>>
    /\ stat_results = NoStats
    /\ matched_genre = <<>>
    /\ typed = NoTyped
    /\ ops = MaxMoves
    /\ session = NoSession

NextStats ==
    \/ Statistics
    \/ Interrupt

SpecStats == InitStats /\ [][NextStats]_vars

(***************************************************************************)
(* Properties.                                                             *)
(***************************************************************************)
Last(seq) == seq[Len(seq)]

InSessionPcs == {"fetch", "continue_prompt", "continue_or_menu_prompt", "new_keyword_input"}

KeywordSummariesSince(mark) ==
    Cardinality({i \in (mark + 1)..Len(log) : log[i].event_type = "keyword_summary"})

\* C1: with a connected logger, log_event receives exactly one keyword_summary per
\* session start of a keyword search (the initial keyword or a replacement keyword),
\* from the first fetch on and however many pages follow, and none in a genre/year
\* session.
C1_SummaryOncePerSessionStart ==
    (is_connected(logger) /\ session.kind # "none") =>
        KeywordSummariesSince(session.mark) =
            IF session.kind = "search_by_keyword" /\ session.fetches # <<>> THEN 1 ELSE 0

C1_Witness ==
    /\ is_connected(logger)
    /\ session.kind = "search_by_keyword"
    /\ session.restarted
    /\ Len(session.fetches) >= 2
    /\ Last(session.fetches).offset > 0

\* C2: since a session start, no fetch follows a page of fewer than 10 rows, and after
\* a non-empty page of fewer than 10 rows the process is outside
\* show_paginated_results: it neither fetches again nor asks "show more?".
C2_ShortPageEndsPaging ==
    /\ \A i \in 1..(Len(session.fetches) - 1) : session.fetches[i].len = 10
    /\ (session.fetches # <<>> /\ Last(session.fetches).len \in 1..9) => pc \notin InSessionPcs

C2_Witness ==
    /\ Len(session.fetches) >= 2
    /\ Last(session.fetches).len \in 1..9
    /\ pc = "main_menu"

C3_Offsets ==
    /\ \A k \in 1..Len(session.fetches) : session.fetches[k].offset = 10 * (k - 1)
    /\ pc = "fetch" => offset = 10 * Len(session.fetches)

C3_Step ==
    offset' # offset =>
        \/ offset' = 0
        \/ /\ offset' = offset + 10
           /\ pc = "continue_prompt"
           /\ Len(results) = 10
           /\ pc' = "fetch"

\* C3: the (k+1)-th fetch since the last session start is at offset 10*k, and the
\* offset changes only to 0 or by +10 on the answer yes to "show more?" after a page
\* of exactly 10 rows.
C3_OffsetAdvancesByPage == []C3_Offsets /\ [][C3_Step]_vars

C3_Witness ==
    /\ Len(session.fetches) = 3
    /\ session.fetches[3].offset = 20
    /\ session.fetches[2].len = 10

\* C4: after a fetch whose query raised, the session is over: the process is back
\* outside show_paginated_results and neither "nothing found" nor the retry prompt is
\* shown.
C4_FailedFetchAbortsSession ==
    (session.fetches # <<>> /\ Last(session.fetches).failed) =>
        /\ pc \notin InSessionPcs
        /\ <<"nothing found">> \notin console

\* C5: no catalog query error after startup leaves main's menu loop.
C5_QueryErrorStaysInLoop ==
    ~(pc = "crashed" /\ <<"Traceback", "MySQLError">> \in console)

\* C6: when the process has exited, by menu choice 4 or by Ctrl+C at a prompt, the
\* MySQL connection and the logger's client are closed.
C6_ExitClosesConnections ==
    pc = "exited" => (mysql_conn = "closed" /\ logger.client # "open")

\* C7: in the rows get_top_searches returns, an earlier row has a count greater than
\* a later one, or the same count and a timestamp that is not older.
C7_TopRankedByCountThenRecency ==
    stat_results.call = "top_searches" =>
        \A i, j \in 1..Len(stat_results.rows) :
            i < j =>
                \/ stat_results.rows[i].count > stat_results.rows[j].count
                \/ /\ stat_results.rows[i].count = stat_results.rows[j].count
                   /\ stat_results.rows[i].timestamp >= stat_results.rows[j].timestamp

\* the stored search events of the given types
SearchDocs(types) == {d \in Range(Collection(log)) : d.event_type \in types}

SignatureOf(d) == <<d.event_type, d.data>>

\* the latest event of every signature among docs
LatestOf(docs) ==
    {d \in docs : \A e \in docs : SignatureOf(e) = SignatureOf(d) => e.timestamp <= d.timestamp}

\* out lists, newest first, as many of the latest events of docs as the limit admits,
\* and none that is older than one it leaves out
IsRecentList(out, docs) ==
    /\ Len(out) = Min(STATS_LIMIT, Cardinality(LatestOf(docs)))
    /\ \A i \in 1..Len(out) : out[i].timestamp \in {d.timestamp : d \in LatestOf(docs)}
    /\ \A i, j \in 1..Len(out) : i < j => out[i].timestamp > out[j].timestamp
    /\ \A d \in LatestOf(docs) :
           (\A i \in 1..Len(out) : out[i].timestamp # d.timestamp) =>
               \A i \in 1..Len(out) : out[i].timestamp > d.timestamp

\* C8 as stated: get_recent_unique_searches lists the latest 5 distinct searches of both
\* kinds, keyword and genre/year.
C8_RecentOverBothKinds ==
    stat_results.call = "recent_unique" =>
        IsRecentList(stat_results.returned, SearchDocs(SearchTypes))

\* C8: get_recent_unique_searches lists the latest 5 distinct keywords of the logged
\* keyword searches, newest first, each with the timestamp of its latest search and
\* its keyword in quotes; genre/year searches are not listed.
C8_RecentOverKeywordSearches ==
    stat_results.call = "recent_unique" =>
        /\ IsRecentList(stat_results.returned, SearchDocs({"search_by_keyword"}))
        /\ \A i \in 1..Len(stat_results.returned) :
               \E d \in SearchDocs({"search_by_keyword"}) :
                   /\ d.timestamp = stat_results.returned[i].timestamp
                   /\ stat_results.returned[i].params = <<"'">> \o d.data.keyword \o <<"'">>

C8_Witness ==
    /\ stat_results.call = "recent_unique"
    /\ Len(stat_results.returned) = STATS_LIMIT
    /\ Cardinality(LatestOf(SearchDocs({"search_by_keyword"}))) > STATS_LIMIT

\* C9: the list get_recent_unique_searches returns has no two entries with the same
\* kind and parameters, and its timestamps do not increase.
C9_RecentDistinctAndSorted ==
    stat_results.call = "recent_unique" =>
        \A i, j \in 1..Len(stat_results.returned) :
            i < j =>
                /\ <<stat_results.returned[i].event_type, stat_results.returned[i].params>>
                     # <<stat_results.returned[j].event_type, stat_results.returned[j].params>>
                /\ stat_results.returned[i].timestamp >= stat_results.returned[j].timestamp

C9_Witness ==
    /\ stat_results.call = "recent_unique"
    /\ Len(stat_results.returned) >= 3
    /\ \E d, e \in SearchDocs({"search_by_keyword"}) :
           d.timestamp # e.timestamp /\ d.data = e.data

Unavailable == <<[timestamp |-> 0, event_type |-> "MongoDB", params |-> <<"unavailable">>]>>

\* C10: with a logger that is not connected, answering the statistics prompt with 1 or
\* 2 returns the single placeholder entry marked unavailable, aggregates nothing, logs
\* nothing, and leads back to the main menu.
C10_UnavailablePlaceholder ==
    [][(pc = "statistics_menu" /\ ~is_connected(logger)
          /\ pc' \notin {"statistics_menu", "exited"}) =>
            /\ pc' = "main_menu"
            /\ stat_results'.call \in {"top_searches", "recent_unique"}
            /\ stat_results'.returned = Unavailable
            /\ Len(stat_results'.returned) = 1
            /\ stat_results'.rows = <<>>
            /\ log' = log
            /\ <<"statistics">> \in console']_vars

C10_Witness ==
    /\ ~is_connected(logger)
    /\ pc = "main_menu"
    /\ stat_results.call = "recent_unique"
    /\ stat_results.returned = Unavailable

\* C11: when collection.aggregate raises in a statistics call of a connected logger, the
\* call hands log_event exactly one event, a stats_error of level error that names the
\* call and carries the error text, returns the single placeholder entry tagged as an
\* error with no aggregated rows, and main goes on to the menu.
C11_StatsErrorPlaceholder ==
    [][(pc = "statistics_menu" /\ stat_results'.failed) =>
            /\ is_connected(logger)
            /\ Len(log') = Len(log) + 1
            /\ Last(log').event_type = "stats_error"
            /\ Last(log').level = "error"
            /\ Last(log').data.context = stat_results'.call
            /\ Last(log').data.error = <<"OperationFailure">>
            /\ Len(stat_results'.returned) = 1
            /\ stat_results'.returned[1].event_type = "error"
            /\ stat_results'.returned[1].params =
                   <<"statistics error (", stat_results'.call, ")">>
            /\ stat_results'.rows = <<>>
            /\ pc' = "main_menu"]_vars

C11_Witness ==
    /\ stat_results.failed
    /\ stat_results.call = "recent_unique"
    /\ pc = "main_menu"
    /\ Last(log).event_type = "stats_error"
    /\ ~Last(log).stored
\* C12: when the user answers the genre prompt with q (in either case, spaces around
\* it), nothing is logged, no session of show_paginated_results begins, no genre is
\* kept and the main menu is next.
C12_GenreCancelShortCircuits ==
    [][(typed'.prompt = "genre_input" /\ Lower(Strip(typed'.text[1])) = <<"q">>) =>
            /\ pc' = "main_menu"
            /\ log' = log
            /\ search_func' = "none"
            /\ session' = session
            /\ offset' = offset /\ results' = results /\ args' = args
            /\ matched_genre' = <<>>]_vars

C12_Witness ==
    /\ typed = Typed("genre_input", << <<"Q">> >>)
    /\ pc = "main_menu"
    /\ \E i \in 1..Len(log) : log[i].event_type = "genre_year_loaded"
    /\ \A i \in 1..Len(log) : log[i].event_type # "search_by_genre_year"
\* C13: after a startup whose catalog connection failed, the user has been shown the
\* connection error message of main, a connected logger has received a
\* db_connection_error of level error, and the process has ended without reaching
\* the main menu or any other prompt.
C13_StartupFailureReported ==
    (pc # "start" /\ mysql_conn = "none") =>
        /\ pc \notin PromptPcs \cup {"fetch"}
        /\ <<"error", "database connection">> \in console
        /\ <<"Traceback", "TypeError">> \notin console
        /\ is_connected(logger) =>
               \E i \in 1..Len(log) :
                   log[i].event_type = "db_connection_error" /\ log[i].level = "error"
\* what a prompt may make of an answer before logging it: the text as typed, stripped,
\* or stripped and lower-cased
FormsOf(raw) == {raw, Strip(raw), Lower(Strip(raw))}

\* C14: an answer that logs an input_error is followed by the same prompt, and an
\* answer followed by the same prompt hands a connected logger exactly one event, an
\* input_error of level warning whose invalid_input is the text the user typed (read
\* generously: as typed, stripped, or stripped and lower-cased).
C14_InputErrorsLogRawInput ==
    [][(typed'.prompt # "none" /\ is_connected(logger)) =>
            /\ (Len(log') > Len(log) /\ Last(log').event_type = "input_error") => pc' = pc
            /\ pc' = pc =>
                   /\ Len(log') = Len(log) + 1
                   /\ Last(log').event_type = "input_error"
                   /\ Last(log').level = "warning"
                   /\ \E raw \in Range(typed'.text) :
                          Last(log').data.invalid_input \in FormsOf(raw)]_vars
\* the positional arguments of a genre/year search that binds its parameters
C15_Args ==
    (search_func = "search_by_genre_and_year" /\ CallBinds(search_func, args)) =>
        /\ \E i \in 1..Len(GenreList) : args[2] = GenreList[i]
        /\ MinYear <= args[3] /\ args[3] <= args[4] /\ args[4] <= MaxYear

\* two years typed at the year prompts that are inverted or outside the known range
C15_BadRange(text) ==
    /\ Len(text) = 2 /\ IsInt(text[1]) /\ IsInt(text[2])
    /\ \/ ParseInt(text[1]) > ParseInt(text[2])
       \/ ParseInt(text[1]) < MinYear
       \/ ParseInt(text[2]) > MaxYear

C15_Step ==
    (typed'.prompt = "year_input" /\ C15_BadRange(typed'.text)) =>
        /\ pc' = "year_input"
        /\ search_func' = "none"
        /\ session' = session

\* C15: a genre/year search is called only with a genre of the offered list and years
\* with min_year <= year_from <= year_to <= max_year, and an inverted or out-of-range
\* pair of years is answered by the year prompt again, with no session begun.
C15_GenreYearRangeValidated == []C15_Args /\ [][C15_Step]_vars

C15_Witness ==
    /\ session.kind = "search_by_genre_and_year"
    /\ session.fetches # <<>>
    /\ search_func = "search_by_genre_and_year"
    /\ args[3] < args[4]
    /\ \E i \in 1..Len(log) :
           /\ log[i].event_type = "input_error"
           /\ log[i].data.invalid_input = <<"range start later than its end">>
C16_Keyword ==
    /\ search_func = "search_by_keyword" =>
           /\ Len(args) = 2
           /\ args[2] # <<>>
           /\ Strip(args[2]) = args[2]
    /\ \A i \in 1..Len(log) :
           log[i].event_type = "input_error" => log[i].data.context # "search_by_keyword"

C16_Step ==
    (typed'.prompt \in {"keyword_input", "new_keyword_input"} /\ pc' = "fetch") =>
        /\ Strip(typed'.text[1]) # <<>>
        /\ args'[Len(args')] = Strip(typed'.text[1])

\* C16: search_by_keyword is only ever called with a keyword that is not empty and has
\* no spaces around it, the stripped answer get_keyword_input accepted at the first
\* search or at a restart, and its own empty-keyword branch never logs.
C16_KeywordNeverEmpty == []C16_Keyword /\ [][C16_Step]_vars

C16_Witness ==
    /\ session.kind = "search_by_keyword"
    /\ session.restarted
    /\ session.fetches # <<>>
    /\ args[2] = <<"b">>
    /\ typed = NoTyped
\* a logger whose construction did not reach the store stays disconnected, and no call
\* writes anything
C17_DisconnectedNoOp ==
    (pc # "start" /\ ~logger.collection) => (~logger'.collection /\ log' = log)

\* a rejected write does not end the handler: the first page of a keyword search hands
\* the logger its page event and its summary whether or not the store takes them, and
\* an answered prompt is followed by a prompt or a fetch
C17_FailureSwallowed ==
    /\ (pc = "fetch" /\ pc' # "crashed" /\ logger.collection /\ offset = 0
          /\ search_func = "search_by_keyword") =>
            /\ Len(log') = Len(log) + 2
            /\ log'[Len(log) + 1].event_type \in {"keyword_search", "search_error"}
            /\ log'[Len(log) + 2].event_type = "keyword_summary"
    /\ (typed'.prompt # "none" /\ pc' = "crashed") =>
            <<"Traceback", "MySQLError">> \in console'

\* C17: log_event and log_input_error never raise: with a logger that is not connected
\* every logging call writes nothing and the logger stays disconnected, and with a
\* connected logger a rejected write is swallowed and the caller goes on.
C17_LoggingNeverRaises == [][C17_DisconnectedNoOp /\ C17_FailureSwallowed]_vars

C17_Witness ==
    /\ logger.collection
    /\ session.kind = "search_by_keyword"
    /\ Len(session.fetches) = 1
    /\ Len(log) >= 2
    /\ log[Len(log) - 1].event_type = "keyword_search"
    /\ ~log[Len(log) - 1].stored
    /\ Last(log).event_type = "keyword_summary"
    /\ Last(log).stored
\* a keyword_summary has the status found exactly when its count is positive
C18_Summaries ==
    \A i \in 1..Len(log) :
        log[i].event_type = "keyword_summary" =>
            /\ log[i].data.status \in {"found", "not_found"}
            /\ log[i].data.status = "found" <=> log[i].data.found_count > 0

\* the first fetch of a keyword: its summary and what follows it
C18_Step ==
    (pc = "fetch" /\ offset = 0 /\ search_func = "search_by_keyword" /\ logger.collection) =>
        /\ Last(log').event_type = "keyword_summary"
        /\ Last(log').data.keyword = args[2]
        /\ Last(log').data.found_count = Last(session'.fetches).len
        /\ Last(session'.fetches).len = 10 =>
               pc' = "continue_prompt" /\ Last(log').data.status = "found"
        /\ Last(session'.fetches).len = 0 =>
               /\ pc' = "continue_or_menu_prompt"
               /\ <<"nothing found">> \in console'
               /\ Last(log').data.status = "not_found"

\* C18: every keyword_summary carries the keyword queried, the number of rows of its
\* first page as found_count, and the status found exactly when that number is
\* positive; a first page of 10 rows is followed by "show more?", an empty first page by
\* "nothing found" and the retry prompt.
C18_SummaryContent == []C18_Summaries /\ [][C18_Step]_vars

C18_Witness ==
    /\ pc = "continue_prompt"
    /\ Len(session.fetches) = 1
    /\ Last(log).event_type = "keyword_summary"
    /\ Last(log).data = [keyword |-> <<"a">>, status |-> "found", found_count |-> 10]
\* the stored search events with the signature of d
SameSearches(d) ==
    {e \in SearchDocs(SearchTypes) : SignatureOf(e) = SignatureOf(d)}

\* the text get_top_searches shows for the search d counted n times
C19_Params(d, n) ==
    IF d.event_type = "search_by_keyword"
    THEN <<"'">> \o d.data.keyword \o <<"' - ">> \o IntStr(n) \o <<" times">>
    ELSE d.data.genre \o <<", ">> \o IntStr(d.data.year_from) \o <<"-">>
           \o IntStr(d.data.year_to) \o <<" - ">> \o IntStr(n) \o <<" times">>

\* C19: get_top_searches returns min(5, number of distinct searches) entries, no two for
\* the same search; an entry carries the number of stored search events of its search
\* and the timestamp of the latest of them, events of other types are counted nowhere,
\* and an entry with a greater count comes before one with a smaller count.
C19_TopCounts ==
    (stat_results.call = "top_searches" /\ ~stat_results.failed /\ is_connected(logger)) =>
        /\ Len(stat_results.returned) =
               Min(STATS_LIMIT, Cardinality(LatestOf(SearchDocs(SearchTypes))))
        /\ Len(stat_results.rows) = Len(stat_results.returned)
        /\ \A i \in 1..Len(stat_results.returned) :
               \E d \in LatestOf(SearchDocs(SearchTypes)) :
                   /\ stat_results.returned[i].timestamp = d.timestamp
                   /\ stat_results.rows[i].count = Cardinality(SameSearches(d))
                   /\ stat_results.returned[i].params =
                          C19_Params(d, Cardinality(SameSearches(d)))
        /\ \A i, j \in 1..Len(stat_results.returned) :
               i < j =>
                   /\ stat_results.returned[i].timestamp # stat_results.returned[j].timestamp
                   /\ stat_results.rows[i].count >= stat_results.rows[j].count

C19_Witness ==
    /\ stat_results.call = "top_searches"
    /\ Len(stat_results.rows) >= 3
    /\ stat_results.rows[1].count >= 3
    /\ stat_results.rows[2].count = 2
    /\ \E i \in 1..Len(stat_results.rows) :
           stat_results.rows[i]._id.type = "search_by_genre_year"
    /\ \E i \in 1..Len(log) : log[i].event_type = "keyword_summary"
\* the statistics events logged so far
StatsEvents ==
    {i \in 1..Len(log) : log[i].event_type \in {"stats_top_searches", "stats_recent_unique"}}

\* C20: with a connected logger whose collection holds no search event, a statistics
\* call whose aggregation does not fail returns the empty list, the first time and
\* every time after, whatever events of other types the collection holds.
C20_EmptyLogEmptyList ==
    (/\ stat_results.call \in {"top_searches", "recent_unique"}
     /\ is_connected(logger)
     /\ ~stat_results.failed
     /\ SearchDocs(SearchTypes) = {}) =>
        /\ stat_results.returned = <<>>
        /\ stat_results.rows = <<>>
        /\ typed.prompt = "statistics_menu" => <<"no data">> \in console

C20_Witness ==
    /\ stat_results.call = "top_searches"
    /\ is_connected(logger)
    /\ stat_results.returned = <<>>
    /\ Cardinality(StatsEvents) = 2
    /\ \A i \in StatsEvents : log[i].stored /\ log[i].data.returned = 0
    /\ SearchDocs(SearchTypes) = {}
\* C21: with a connected logger, once the first page of a keyword has been queried, be
\* it the keyword of menu option 1 or a replacement keyword after an empty page, the
\* logger has received a search_by_keyword event with that keyword.
C21_EverySearchRecorded ==
    (/\ is_connected(logger)
     /\ search_func = "search_by_keyword"
     /\ session.fetches # <<>>) =>
        \E i \in 1..Len(log) :
            /\ log[i].event_type = "search_by_keyword"
            /\ log[i].data.keyword = args[2]
\* the answers the retry prompt takes for no
C22_Declined(text) == Lower(Strip(text[1])) \in {<<"n">>, <<"n", "o">>}

C22_Step ==
    /\ (pc = "new_keyword_input" /\ pc' = "fetch") =>
           /\ offset' = 0
           /\ search_func' = search_func
           /\ CallBinds(search_func', args')
    /\ (pc = "fetch" /\ session.restarted /\ session.fetches = <<>>) =>
           /\ pc' # "crashed"
           /\ Len(session'.fetches) = 1
           /\ session'.fetches[1].offset = 0
    /\ (typed'.prompt = "continue_or_menu_prompt" /\ C22_Declined(typed'.text)) =>
           /\ pc' = "main_menu"
           /\ search_func' = "none"
           /\ session' = session

\* C22: after an empty page of a session of either kind, the answer yes and a
\* replacement keyword restart the session at offset 0 with a call that binds the
\* parameters of the session's search function and returns a page, no exception
\* leaving show_paginated_results; the answer no ends the session with no more fetch.
C22_RestartWellFormed == [][C22_Step]_vars
\* C23: "nothing found" and the retry prompt appear only in a session none of whose
\* pages since its start returned a row.
C23_NothingFoundOnlyWithoutRows ==
    (session.kind # "none"
       /\ (pc = "continue_or_menu_prompt" \/ <<"nothing found">> \in console)) =>
        \A k \in 1..Len(session.fetches) : session.fetches[k].len = 0
====
